---- MODULE Spec2Model ----
(***************************************************************************)
(* Model of the vault-source lifecycle / derived-cache glue (services      *)
(* vault module, src/unnamed/part_001) and of the deep-link router         *)
(* (src/source/services/linking.ts) of buttercup-mobile.                   *)
(*                                                                         *)
(* The vault engine ("buttercup" package) and the sibling modules ./otp    *)
(* and ./search are not part of the sources at hand; their effect is       *)
(* modelled from the documented contract and marked as such.               *)
(***************************************************************************)
EXTENDS Integers, Sequences, FiniteSets, TLC

\* ------------------------------------------------------------------ bounds

\* Number of source objects ever constructed (rehydrated + added).
MaxSources == 2
\* Largest number of entries of a vault drawn for the extraction check.
MaxEntries == 2
\* Number of live "url" events the OS delivers after the listener is set.
MaxDeliveries == 3
\* Number of group and entry IDs the vault being edited ever generates.
MaxItems == 3

SourceIDs == 1..MaxSources

\* --------------------------------------------------------------- variables

VARIABLES
    vaultPc,          \* position of initialise(): "start", "attached", "ready"
    managerWatchers,  \* number of "sourcesUpdated" listeners on the manager
    nextId,           \* next fresh VaultSourceID
    rehydrated,       \* IDs loaded by rehydrate()
    sources,          \* vaultManager.sources (ordered)
    status,           \* source.status per source object
    vault,            \* source.vault per source object (sequence of entries)
    updatedCbs,       \* number of "updated" listeners per source object
    unlockedCbs,      \* number of "unlocked" listeners per source object
    watched,          \* __watchedVaultSources
    otpCache,         \* codes per source held by ./otp
    adding,           \* addWebDAVVault calls between addSource and unlock
    unlocking,        \* who awaits the in-flight source.unlock, per source
    searchPending,    \* arguments of updateSearchCaches calls in flight
    searchIndex,      \* sources the search index was last built from
    lastRebuild,      \* history: argument of the latest updateSearchCaches call
    unwatchedUnlocks, \* history: unlocks started with no watcher pair
    missedUnlocked,   \* history: "unlocked" fired with no listener
    lastEvent,        \* the step just taken: [op, id, outcome]
    linkPc,           \* position of linking initialise()
    initialURL,       \* what Linking.getInitialURL() resolves to
    delivered,        \* live "url" events received so far
    handled,          \* URIs handleURLChange dispatched on, in order
    inbox,            \* pending OTP URIs held by ./otp
    tokens,           \* "token" events emitted on the dropbox emitter
    notices,          \* user-visible notifications raised, in order
    vaultGroups,      \* groups of the vault being edited: group ID -> parent
    vaultEntries,     \* entries of the vault being edited: entry ID -> group
    nextItem          \* next fresh group or entry ID

vaultVars == <<vaultPc, managerWatchers, nextId, rehydrated, sources, status,
               vault, updatedCbs, unlockedCbs, watched, otpCache, adding,
               unlocking, searchPending, searchIndex, lastRebuild,
               unwatchedUnlocks, missedUnlocked, lastEvent>>

linkVars == <<linkPc, initialURL, delivered, handled, inbox, tokens, notices>>

editVars == <<vaultGroups, vaultEntries, nextItem>>

vars == <<vaultVars, linkVars, editVars>>

\* ----------------------------------------------------------------- helpers

Range(s) == {s[i] : i \in 1..Len(s)}

Includes(s, x) == \E i \in 1..Len(s) : s[i] = x

RECURSIVE Without(_, _)
Without(s, x) ==
    IF s = <<>> THEN <<>>
    ELSE IF Head(s) = x THEN Without(Tail(s), x)
         ELSE <<Head(s)>> \o Without(Tail(s), x)

Occurrences(s, x) == Cardinality({i \in 1..Len(s) : s[i] = x})

Event(op, id, outcome) == [op |-> op, id |-> id, outcome |-> outcome]

\* ------------------------------------------------------------ vault content

\* Property keys of an entry and the declared value types of a property.
Keys == {"title", "code"}
ValueTypes == {"text", "otp"}
OTP == "otp"

NoVault == <<>>

\* The property lists of an entry: each key at most once, in insertion order.
PropLists ==
    {<<>>}
    \cup {<<[key |-> k, type |-> t]>> : k \in Keys, t \in ValueTypes}
    \cup {p \in {<<[key |-> k1, type |-> t1], [key |-> k2, type |-> t2]>> :
                    k1 \in Keys, k2 \in Keys, t1 \in ValueTypes, t2 \in ValueTypes} :
            p[1].key # p[2].key}

\* Vaults of n entries; the entry at position i has ID i.
VaultsOfSize(n) ==
    {[i \in 1..n |-> [id |-> i, props |-> f[i]]] : f \in [1..n -> PropLists]}

AllVaults == UNION {VaultsOfSize(n) : n \in 0..MaxEntries}

\* The contents a source takes in the lifecycle model: no OTP property, and
\* one entry with two OTP properties beside one with a plain title.
VaultPlain == <<[id |-> 1, props |-> <<[key |-> "title", type |-> "text"]>>]>>
VaultWithCodes ==
    <<[id |-> 1, props |-> <<[key |-> "title", type |-> "otp"],
                             [key |-> "code", type |-> "otp"]>>],
      [id |-> 2, props |-> <<[key |-> "title", type |-> "text"]>>]>>
VaultSamples == {VaultPlain, VaultWithCodes}

\* A property whose access throws (corrupted content, unexpected shape).
Malformed == "malformed"

\* A content whose scan fails on its second entry, after an OTP property.
VaultMalformed ==
    <<[id |-> 1, props |-> <<[key |-> "code", type |-> "otp"]>>],
      [id |-> 2, props |-> <<[key |-> "code", type |-> Malformed]>>]>>

\* A content whose scan fails on its first property.
VaultMalformedFirst ==
    <<[id |-> 1, props |-> <<[key |-> "title", type |-> Malformed],
                             [key |-> "code", type |-> "otp"]>>]>>

ScanSamples == VaultSamples \cup {VaultMalformed, VaultMalformedFirst}

\* entry.getProperties()[key]: the stored value of that property.
PropertyValue(entry, key) ==
    IF \E j \in 1..Len(entry.props) : entry.props[j].key = key
    THEN <<"value", entry.id, key>>
    ELSE <<"undefined">>

\* entry.getPropertyValueType(key)
GetPropertyValueType(entry, key) ==
    LET j == CHOOSE j \in 1..Len(entry.props) : entry.props[j].key = key
    IN entry.props[j].type

\* ------------------------------------------------- extractVaultOTPItems

\* A slip: stop at the first OTP property of an entry.
EntryOTPItemsFirstOnly(sourceID, entry, j) ==
    LET otps == {i \in j..Len(entry.props) : entry.props[i].type = OTP}
    IN IF otps = {} THEN <<>>
       ELSE LET i == CHOOSE i \in otps : \A o \in otps : i <= o
                key == entry.props[i].key
            IN <<[sourceID |-> sourceID,
                  entryID |-> entry.id,
                  entryProperty |-> key,
                  entryTitle |-> PropertyValue(entry, "title"),
                  otpURL |-> PropertyValue(entry, key)]>>

\* The items one entry contributes: the for-in loop over its properties.
RECURSIVE EntryOTPItems(_, _, _)
EntryOTPItems(sourceID, entry, j) ==
    IF j > Len(entry.props) THEN <<>>
    ELSE LET key == entry.props[j].key
         IN IF GetPropertyValueType(entry, key) # OTP
            THEN EntryOTPItems(sourceID, entry, j + 1)
            ELSE <<[sourceID |-> sourceID,
                    entryID |-> entry.id,
                    entryProperty |-> key,
                    entryTitle |-> PropertyValue(entry, "title"),
                    otpURL |-> PropertyValue(entry, key)]>>
                 \o EntryOTPItems(sourceID, entry, j + 1)

\* The reduce over source.vault.getAllEntries().
RECURSIVE ExtractFrom(_, _, _)
ExtractFrom(sourceID, vlt, i) ==
    IF i > Len(vlt) THEN <<>>
    ELSE EntryOTPItems(sourceID, vlt[i], 1) \o ExtractFrom(sourceID, vlt, i + 1)

ExtractVaultOTPItems(sourceID, vlt) == ExtractFrom(sourceID, vlt, 1)

\* extractVaultOTPItems throws: entry.getProperties() or
\* entry.getPropertyValueType(key) throws inside the reduce, which has no
\* try/catch.
ExtractVaultOTPItemsThrows(vlt) ==
    \E i \in 1..Len(vlt) :
        \E j \in 1..Len(vlt[i].props) : vlt[i].props[j].type = Malformed

\* ./otp setCodesForSource: the slot of the source is replaced wholesale.
SetCodesForSource(cache, id, items) ==
    [x \in (DOMAIN cache) \cup {id} |-> IF x = id THEN items ELSE cache[x]]

\* A slip: the recompute runs whatever the status of the source.
OnVaultSourceUpdatedAnyStatus(id, st, vlt, cache) ==
    SetCodesForSource(cache, id, ExtractVaultOTPItems(id, vlt))

\* onVaultSourceUpdated(source): the cache after the callback ran.  The
\* Locked branch of the code is empty.
OnVaultSourceUpdated(id, st, vlt, cache) ==
    IF st = "Unlocked"
    THEN IF ExtractVaultOTPItemsThrows(vlt)
         THEN cache
         ELSE SetCodesForSource(cache, id, ExtractVaultOTPItems(id, vlt))
    ELSE IF st = "Locked" THEN cache
    ELSE cache

\* onVaultSourceUpdated(source) ends by an exception: the one thrown by
\* extractVaultOTPItems leaves the callback, which has no try/catch either.
OnVaultSourceUpdatedThrows(st, vlt) ==
    st = "Unlocked" /\ ExtractVaultOTPItemsThrows(vlt)

\* -------------------------------------------------- the sourcesUpdated pass

\* A slip: no membership test before attaching.
RECURSIVE AttachWatchersNoGuard(_, _)
AttachWatchersNoGuard(srcs, w) ==
    IF srcs = <<>> THEN w
    ELSE LET id == Head(srcs)
         IN AttachWatchersNoGuard(Tail(srcs),
                [watched |-> Append(w.watched, id),
                 updatedCbs |-> [w.updatedCbs EXCEPT ![id] = @ + 1],
                 unlockedCbs |-> [w.unlockedCbs EXCEPT ![id] = @ + 1]])

\* A slip: the "unlocked" listener is left out.
RECURSIVE AttachWatchersNoUnlocked(_, _)
AttachWatchersNoUnlocked(srcs, w) ==
    IF srcs = <<>> THEN w
    ELSE LET id == Head(srcs)
         IN AttachWatchersNoUnlocked(Tail(srcs),
                IF ~Includes(w.watched, id)
                THEN [watched |-> Append(w.watched, id),
                      updatedCbs |-> [w.updatedCbs EXCEPT ![id] = @ + 1],
                      unlockedCbs |-> w.unlockedCbs]
                ELSE w)

\* vaultManager.sources.forEach(...) of the "sourcesUpdated" listener: w holds
\* __watchedVaultSources and the listener counts of the source objects.
RECURSIVE AttachWatchers(_, _)
AttachWatchers(srcs, w) ==
    IF srcs = <<>> THEN w
    ELSE LET id == Head(srcs)
         IN AttachWatchers(Tail(srcs),
                IF ~Includes(w.watched, id)
                THEN [watched |-> Append(w.watched, id),
                      updatedCbs |-> [w.updatedCbs EXCEPT ![id] = @ + 1],
                      unlockedCbs |-> [w.unlockedCbs EXCEPT ![id] = @ + 1]]
                ELSE w)

\* vaultManager.unlockedSources
UnlockedSources(srcs, st) == {id \in Range(srcs) : st[id] = "Unlocked"}

\* ./search updateSearchCaches(list): starts a rebuild from that list.
\* No call of updateSearchCaches was made yet.
NoRebuild == {0}

UpdateSearchCaches(pending, list) == pending \cup {list}

\* The "sourcesUpdated" listener, given the registry and statuses at the emit.
SourcesUpdatedListener(srcs, st) ==
    LET w == AttachWatchers(srcs, [watched |-> watched,
                                   updatedCbs |-> updatedCbs,
                                   unlockedCbs |-> unlockedCbs])
    IN /\ watched' = w.watched
       /\ updatedCbs' = w.updatedCbs
       /\ unlockedCbs' = w.unlockedCbs
       /\ searchPending' = UpdateSearchCaches(searchPending, UnlockedSources(srcs, st))
       /\ lastRebuild' = UnlockedSources(srcs, st)

\* The manager emits "sourcesUpdated": every attached listener runs.
EmitSourcesUpdated(srcs, st) ==
    IF managerWatchers > 0
    THEN SourcesUpdatedListener(srcs, st)
    ELSE UNCHANGED <<watched, updatedCbs, unlockedCbs, searchPending, lastRebuild>>

\* source.emit("updated" / "unlocked"): the cache after the attached
\* listeners of that event ran (n of them, each onVaultSourceUpdated).
FireSourceEvent(n, id, st, vlt, cache) ==
    IF n > 0 THEN OnVaultSourceUpdated(id, st, vlt, cache) ELSE cache

\* How the emit ends for the emitter: "threw" when a listener threw.
FireSourceEventOutcome(n, st, vlt) ==
    IF n > 0 /\ OnVaultSourceUpdatedThrows(st, vlt) THEN "threw" ELSE "ok"

\* ------------------------------------------------------------- initialise

\* initialise(), up to the end of attachVaultManagerWatchers().
InitialiseAttach ==
    /\ vaultPc = "start"
    /\ vaultPc' = "attached"
    /\ managerWatchers' = managerWatchers + 1
    /\ lastEvent' = Event("attachVaultManagerWatchers", 0, "ok")
    /\ UNCHANGED <<linkVars, editVars>>
    /\ UNCHANGED <<nextId, rehydrated, sources, status, vault, updatedCbs,
                   unlockedCbs, watched, otpCache, adding, unlocking,
                   searchPending, searchIndex, unwatchedUnlocks, missedUnlocked,
                   lastRebuild>>

\* initialise(), the rehydrate: the persisted sources are loaded Locked and
\* the manager emits "sourcesUpdated".
InitialiseRehydrate ==
    /\ vaultPc = "attached"
    /\ \E n \in 0..MaxSources :
         LET ids == [i \in 1..n |-> i]
             st == [id \in SourceIDs |-> IF id <= n THEN "Locked" ELSE status[id]]
         IN /\ sources' = ids
            /\ rehydrated' = 1..n
            /\ nextId' = n + 1
            /\ status' = st
            /\ EmitSourcesUpdated(ids, st)
    /\ vaultPc' = "ready"
    /\ lastEvent' = Event("rehydrate", 0, "ok")
    /\ UNCHANGED <<linkVars, editVars>>
    /\ UNCHANGED <<managerWatchers, vault, otpCache, adding, unlocking,
                   searchIndex, unwatchedUnlocks, missedUnlocked>>

\* ----------------------------------------------------------------- addVault

\* addVault with a type other than "webdav".
AddVaultUnknownType ==
    /\ vaultPc = "ready"
    /\ lastEvent' = Event("addVault", 0, "UnknownVaultType")
    /\ UNCHANGED <<linkVars, editVars>>
    /\ UNCHANGED <<vaultPc, managerWatchers, nextId, rehydrated, sources, status,
                   vault, updatedCbs, unlockedCbs, watched, otpCache, adding,
                   unlocking, searchPending, searchIndex, unwatchedUnlocks,
                   missedUnlocked,
                   lastRebuild>>

\* addWebDAVVault up to the end of `await vaultMgr.addSource(source)`: a new
\* source object joins the registry and "sourcesUpdated" is emitted.
AddVaultAddSource ==
    /\ vaultPc = "ready"
    /\ nextId <= MaxSources
    /\ LET id == nextId
           srcs == Append(sources, id)
           st == [status EXCEPT ![id] = "Pending"]
       IN /\ sources' = srcs
          /\ status' = st
          /\ EmitSourcesUpdated(srcs, st)
          /\ adding' = adding \cup {id}
          /\ lastEvent' = Event("addSource", id, "ok")
    /\ nextId' = nextId + 1
    /\ UNCHANGED <<linkVars, editVars>>
    /\ UNCHANGED <<vaultPc, managerWatchers, rehydrated, vault, otpCache,
                   unlocking, searchIndex, unwatchedUnlocks, missedUnlocked>>

\* addWebDAVVault: setBusyState and the call of source.unlock.
AddVaultUnlock(id) ==
    /\ id \in adding
    /\ adding' = adding \ {id}
    /\ status' = [status EXCEPT ![id] = "Pending"]
    /\ unlocking' = [unlocking EXCEPT ![id] = "addVault"]
    /\ unwatchedUnlocks' = IF updatedCbs[id] = 0 \/ unlockedCbs[id] = 0
                           THEN unwatchedUnlocks \cup {id}
                           ELSE unwatchedUnlocks
    /\ lastEvent' = Event("addVault", id, "unlocking")
    /\ UNCHANGED <<linkVars, editVars>>
    /\ UNCHANGED <<vaultPc, managerWatchers, nextId, rehydrated, sources, vault,
                   updatedCbs, unlockedCbs, watched, otpCache, searchPending,
                   searchIndex, missedUnlocked,
                   lastRebuild>>

\* --------------------------------------------------------- unlockSourceByID

\* A slip: the status guard is left out.
UnlockSourceByIDNoGuard(id) ==
    /\ vaultPc = "ready"
    /\ Includes(sources, id)
    /\ status' = [status EXCEPT ![id] = "Pending"]
    /\ unlocking' = [unlocking EXCEPT ![id] = "unlockSourceByID"]
    /\ unwatchedUnlocks' = IF updatedCbs[id] = 0 \/ unlockedCbs[id] = 0
                           THEN unwatchedUnlocks \cup {id}
                           ELSE unwatchedUnlocks
    /\ lastEvent' = Event("unlockSourceByID", id, "unlocking")
    /\ UNCHANGED <<linkVars, editVars>>
    /\ UNCHANGED <<vaultPc, managerWatchers, nextId, rehydrated, sources, vault,
                   updatedCbs, unlockedCbs, watched, otpCache, adding,
                   searchPending, searchIndex, missedUnlocked,
                   lastRebuild>>

\* unlockSourceByID(id, password) up to its await: an unknown ID and a status
\* other than Locked throw; otherwise source.unlock is called.
UnlockSourceByID(id) ==
    /\ vaultPc = "ready"
    /\ \/ /\ ~Includes(sources, id)
          /\ lastEvent' = Event("unlockSourceByID", id, "NotFound")
          /\ UNCHANGED <<status, unlocking, unwatchedUnlocks>>
       \/ /\ Includes(sources, id)
          /\ status[id] # "Locked"
          /\ lastEvent' = Event("unlockSourceByID", id, "InvalidState")
          /\ UNCHANGED <<status, unlocking, unwatchedUnlocks>>
       \/ /\ Includes(sources, id)
          /\ status[id] = "Locked"
          /\ status' = [status EXCEPT ![id] = "Pending"]
          /\ unlocking' = [unlocking EXCEPT ![id] = "unlockSourceByID"]
          /\ unwatchedUnlocks' = IF updatedCbs[id] = 0 \/ unlockedCbs[id] = 0
                                 THEN unwatchedUnlocks \cup {id}
                                 ELSE unwatchedUnlocks
          /\ lastEvent' = Event("unlockSourceByID", id, "unlocking")
    /\ UNCHANGED <<linkVars, editVars>>
    /\ UNCHANGED <<vaultPc, managerWatchers, nextId, rehydrated, sources, vault,
                   updatedCbs, unlockedCbs, watched, otpCache, adding,
                   searchPending, searchIndex, missedUnlocked,
                   lastRebuild>>

\* ------------------------------------------------------- vault engine events

\* source.unlock resolves: the source is Unlocked with its content and the
\* source emits "unlocked"; the awaiting caller resumes.
EngineUnlockSucceed(id) ==
    /\ unlocking[id] # "none"
    /\ \E v \in VaultSamples :
         /\ vault' = [vault EXCEPT ![id] = v]
         /\ status' = [status EXCEPT ![id] = "Unlocked"]
         /\ otpCache' = FireSourceEvent(unlockedCbs[id], id, "Unlocked", v, otpCache)
    /\ missedUnlocked' = IF unlockedCbs[id] = 0
                         THEN missedUnlocked \cup {id}
                         ELSE missedUnlocked
    /\ unlocking' = [unlocking EXCEPT ![id] = "none"]
    /\ lastEvent' = Event(unlocking[id], id, "resolved")
    /\ UNCHANGED <<linkVars, editVars>>
    /\ UNCHANGED <<vaultPc, managerWatchers, nextId, rehydrated, sources,
                   updatedCbs, unlockedCbs, watched, adding, searchPending,
                   searchIndex, unwatchedUnlocks,
                   lastRebuild>>

\* source.unlock rejects (bad credentials, unreachable remote): a source that
\* was Locked is Locked again; one that was never Locked (just added) ends
\* Locked or Errored.  The rejection reaches the awaiting caller.
EngineUnlockFail(id) ==
    /\ unlocking[id] # "none"
    /\ \E s \in {"Locked", "Errored"} :
         /\ s = "Errored" => unlocking[id] = "addVault"
         /\ status' = [status EXCEPT ![id] = s]
    /\ unlocking' = [unlocking EXCEPT ![id] = "none"]
    /\ lastEvent' = Event(unlocking[id], id, "AuthenticationFailed")
    /\ UNCHANGED <<linkVars, editVars>>
    /\ UNCHANGED <<vaultPc, managerWatchers, nextId, rehydrated, sources, vault,
                   updatedCbs, unlockedCbs, watched, otpCache, adding,
                   searchPending, searchIndex, unwatchedUnlocks, missedUnlocked,
                   lastRebuild>>

\* The engine locks an Unlocked registered source: its content is released.
\* No listener is attached to "locked"; the "updated" listeners are run on
\* the Locked source here, so that the step ends after the only callback the
\* lock could reach.
EngineLock(id) ==
    /\ Includes(sources, id)
    /\ status[id] = "Unlocked"
    /\ status' = [status EXCEPT ![id] = "Locked"]
    /\ vault' = [vault EXCEPT ![id] = NoVault]
    /\ otpCache' = FireSourceEvent(updatedCbs[id], id, "Locked", NoVault, otpCache)
    /\ lastEvent' = Event("locked", id, "ok")
    /\ UNCHANGED <<linkVars, editVars>>
    /\ UNCHANGED <<vaultPc, managerWatchers, nextId, rehydrated, sources,
                   updatedCbs, unlockedCbs, watched, adding, unlocking,
                   searchPending, searchIndex, unwatchedUnlocks, missedUnlocked,
                   lastRebuild>>

\* A registered source emits "updated" (a save, a remote refresh, a status
\* change); the content of an Unlocked source may have changed.
EngineUpdated(id) ==
    /\ Includes(sources, id)
    /\ \E v \in VaultSamples \cup {NoVault} :
         /\ IF status[id] = "Unlocked" THEN v \in VaultSamples ELSE v = vault[id]
         /\ vault' = [vault EXCEPT ![id] = v]
         /\ otpCache' = FireSourceEvent(updatedCbs[id], id, status[id], v, otpCache)
    /\ lastEvent' = Event("updated", id, "ok")
    /\ UNCHANGED <<linkVars, editVars>>
    /\ UNCHANGED <<vaultPc, managerWatchers, nextId, rehydrated, sources, status,
                   updatedCbs, unlockedCbs, watched, adding, unlocking,
                   searchPending, searchIndex, unwatchedUnlocks, missedUnlocked,
                   lastRebuild>>

\* A slip: the failure also drops the codes of the source.
AutoUpdateFailedListenerInvalidates(id, cache) ==
    [otpCache |-> [k \in (DOMAIN cache) \ {id} |-> cache[k]],
     notice |-> "notifyError"]

\* The "autoUpdateFailed" listener of attachVaultManagerWatchers: the error
\* is logged and notifyError("Auto update failed", ...) is raised.
AutoUpdateFailedListener(id, cache) ==
    [otpCache |-> cache, notice |-> "notifyError"]

\* The manager emits "autoUpdateFailed" for a registered source whose remote
\* content failed to refresh.
EngineAutoUpdateFailed(id) ==
    /\ Includes(sources, id)
    /\ LET r == IF managerWatchers > 0
                THEN AutoUpdateFailedListener(id, otpCache)
                ELSE [otpCache |-> otpCache, notice |-> "none"]
       IN /\ otpCache' = r.otpCache
          /\ lastEvent' = Event("autoUpdateFailed", id, r.notice)
    /\ UNCHANGED <<linkVars, editVars>>
    /\ UNCHANGED <<vaultPc, managerWatchers, nextId, rehydrated, sources, status,
                   vault, updatedCbs, unlockedCbs, watched, adding, unlocking,
                   searchPending, searchIndex, unwatchedUnlocks, missedUnlocked,
                   lastRebuild>>

\* The manager emits "sourcesUpdated" with the set of sources unchanged (a
\* reorder, a rename).
EngineSourcesUpdated ==
    /\ vaultPc = "ready"
    /\ EmitSourcesUpdated(sources, status)
    /\ lastEvent' = Event("sourcesUpdated", 0, "ok")
    /\ UNCHANGED <<linkVars, editVars>>
    /\ UNCHANGED <<vaultPc, managerWatchers, nextId, rehydrated, sources, status,
                   vault, otpCache, adding, unlocking, searchIndex,
                   unwatchedUnlocks, missedUnlocked>>

\* A rebuild started by updateSearchCaches completes.
SearchRebuildDone ==
    /\ \E list \in searchPending :
         /\ searchIndex' = list
         /\ searchPending' = searchPending \ {list}
    /\ lastEvent' = Event("searchRebuilt", 0, "ok")
    /\ UNCHANGED <<linkVars, editVars>>
    /\ UNCHANGED <<vaultPc, managerWatchers, nextId, rehydrated, sources, status,
                   vault, updatedCbs, unlockedCbs, watched, otpCache, adding,
                   unlocking, unwatchedUnlocks, missedUnlocked,
                   lastRebuild>>

\* -------------------------------------------------------- removeVaultSource

\* removeVaultSource(id): the manager drops the source and emits
\* "sourcesUpdated"; an unknown ID is rejected.  Nothing else is touched.
RemoveVaultSource(id) ==
    /\ vaultPc = "ready"
    /\ \/ /\ ~Includes(sources, id)
          /\ lastEvent' = Event("removeVaultSource", id, "NotFound")
          /\ UNCHANGED <<sources, watched, updatedCbs, unlockedCbs, searchPending,
                       lastRebuild>>
       \/ /\ Includes(sources, id)
          /\ sources' = Without(sources, id)
          /\ EmitSourcesUpdated(Without(sources, id), status)
          /\ lastEvent' = Event("removeVaultSource", id, "ok")
    /\ UNCHANGED <<linkVars, editVars>>
    /\ UNCHANGED <<vaultPc, managerWatchers, nextId, rehydrated, status, vault,
                   otpCache, adding, unlocking, searchIndex, unwatchedUnlocks,
                   missedUnlocked>>

\* ------------------------------------------------ groups and entries

ItemIDs == 1..MaxItems

\* A null or empty GroupID / EntryID, and what a failed find returns.
NoID == 0

\* A vault with no group (or no entry).
NoItems == [x \in {} |-> NoID]

\* The source whose vault is edited.
EditSource == 1

\* The property lists an entry facade carries.
Facades == {<<[key |-> "title", type |-> "text"]>>,
            <<[key |-> "code", type |-> "otp"]>>}

\* vault.findGroupByID(id) / vault.findEntryByID(id), on the map of the
\* groups (or entries) present: the item, or null.
FindByID(items, id) == IF id \in DOMAIN items THEN id ELSE NoID

\* g is the group gid or lies below it.
RECURSIVE IsUnder(_, _, _)
IsUnder(groups, g, gid) ==
    \/ g = gid
    \/ /\ g \in DOMAIN groups
       /\ groups[g] # NoID
       /\ IsUnder(groups, groups[g], gid)

\* group.delete(): the group, the groups below it and their entries go.
GroupsAfterDelete(groups, gid) ==
    [g \in {x \in DOMAIN groups : ~IsUnder(groups, x, gid)} |-> groups[g]]

EntriesAfterDelete(groups, ents, gid) ==
    [e \in {x \in DOMAIN ents : ~IsUnder(groups, ents[x], gid)} |-> ents[e]]

RECURSIVE ContentAfterDelete(_, _)
ContentAfterDelete(vlt, kept) ==
    IF vlt = <<>> THEN <<>>
    ELSE IF Head(vlt).id \in kept
         THEN <<Head(vlt)>> \o ContentAfterDelete(Tail(vlt), kept)
         ELSE ContentAfterDelete(Tail(vlt), kept)

\* consumeEntryFacade(entry, facade): the properties of the entry become
\* those of the facade.
ConsumeEntryFacade(vlt, entryID, facade) ==
    [i \in 1..Len(vlt) |->
        IF vlt[i].id = entryID THEN [id |-> entryID, props |-> facade] ELSE vlt[i]]

\* source.save(): the content is written and the source emits "updated".
SourceSave(id, vlt) ==
    otpCache' = FireSourceEvent(updatedCbs[id], id, status[id], vlt, otpCache)

\* createNewGroup(sourceID, groupName, parentGroupID)
CreateNewGroup(parentGroupID) ==
    /\ status[EditSource] = "Unlocked"
    /\ LET parentGroup == FindByID(vaultGroups, parentGroupID)
       IN \/ /\ parentGroupID # NoID
             /\ parentGroup = NoID
             /\ lastEvent' = Event("createNewGroup", parentGroupID, "NotFound")
             /\ UNCHANGED <<vaultGroups, nextItem, otpCache>>
          \/ /\ parentGroupID = NoID \/ parentGroup # NoID
             /\ nextItem <= MaxItems
             /\ vaultGroups' = [g \in (DOMAIN vaultGroups) \cup {nextItem} |->
                                  IF g = nextItem THEN parentGroupID
                                  ELSE vaultGroups[g]]
             /\ nextItem' = nextItem + 1
             /\ SourceSave(EditSource, vault[EditSource])
             /\ lastEvent' = Event("createNewGroup", parentGroupID, "saved")
    /\ UNCHANGED <<vault, vaultEntries>>
    /\ UNCHANGED linkVars
    /\ UNCHANGED <<vaultPc, managerWatchers, nextId, rehydrated, sources, status,
                   updatedCbs, unlockedCbs, watched, adding, unlocking,
                   searchPending, searchIndex, lastRebuild, unwatchedUnlocks,
                   missedUnlocked>>

\* deleteGroup(sourceID, groupID): the test after the find is on groupID, not
\* on the group found, so an unknown ID reaches group.delete() on null.
DeleteGroup(groupID) ==
    /\ status[EditSource] = "Unlocked"
    /\ LET group == FindByID(vaultGroups, groupID)
       IN \/ /\ groupID = NoID
             /\ lastEvent' = Event("deleteGroup", groupID, "NotFound")
             /\ UNCHANGED <<vault, vaultGroups, vaultEntries, otpCache>>
          \/ /\ groupID # NoID
             /\ group = NoID
             /\ lastEvent' = Event("deleteGroup", groupID, "TypeError")
             /\ UNCHANGED <<vault, vaultGroups, vaultEntries, otpCache>>
          \/ /\ groupID # NoID
             /\ group # NoID
             /\ vaultGroups' = GroupsAfterDelete(vaultGroups, groupID)
             /\ vaultEntries' = EntriesAfterDelete(vaultGroups, vaultEntries, groupID)
             /\ LET vlt == ContentAfterDelete(vault[EditSource],
                               DOMAIN EntriesAfterDelete(vaultGroups, vaultEntries, groupID))
                IN /\ vault' = [vault EXCEPT ![EditSource] = vlt]
                   /\ SourceSave(EditSource, vlt)
             /\ lastEvent' = Event("deleteGroup", groupID, "saved")
    /\ UNCHANGED nextItem
    /\ UNCHANGED linkVars
    /\ UNCHANGED <<vaultPc, managerWatchers, nextId, rehydrated, sources, status,
                   updatedCbs, unlockedCbs, watched, adding, unlocking,
                   searchPending, searchIndex, lastRebuild, unwatchedUnlocks,
                   missedUnlocked>>

\* saveNewEntry(sourceID, groupID, facade)
SaveNewEntry(groupID, facade) ==
    /\ status[EditSource] = "Unlocked"
    /\ LET group == FindByID(vaultGroups, groupID)
       IN \/ /\ group = NoID
             /\ lastEvent' = Event("saveNewEntry", groupID, "NotFound")
             /\ UNCHANGED <<vault, vaultEntries, nextItem, otpCache>>
          \/ /\ group # NoID
             /\ nextItem <= MaxItems
             /\ vaultEntries' = [e \in (DOMAIN vaultEntries) \cup {nextItem} |->
                                   IF e = nextItem THEN groupID
                                   ELSE vaultEntries[e]]
             /\ nextItem' = nextItem + 1
             /\ LET vlt == Append(vault[EditSource],
                                  [id |-> nextItem, props |-> facade])
                IN /\ vault' = [vault EXCEPT ![EditSource] = vlt]
                   /\ SourceSave(EditSource, vlt)
             /\ lastEvent' = Event("saveNewEntry", groupID, "saved")
    /\ UNCHANGED vaultGroups
    /\ UNCHANGED linkVars
    /\ UNCHANGED <<vaultPc, managerWatchers, nextId, rehydrated, sources, status,
                   updatedCbs, unlockedCbs, watched, adding, unlocking,
                   searchPending, searchIndex, lastRebuild, unwatchedUnlocks,
                   missedUnlocked>>

\* saveExistingEntryChanges(sourceID, entryID, facade)
SaveExistingEntryChanges(entryID, facade) ==
    /\ status[EditSource] = "Unlocked"
    /\ LET entry == FindByID(vaultEntries, entryID)
       IN \/ /\ entry = NoID
             /\ lastEvent' = Event("saveExistingEntryChanges", entryID, "NotFound")
             /\ UNCHANGED <<vault, otpCache>>
          \/ /\ entry # NoID
             /\ LET vlt == ConsumeEntryFacade(vault[EditSource], entryID, facade)
                IN /\ vault' = [vault EXCEPT ![EditSource] = vlt]
                   /\ SourceSave(EditSource, vlt)
             /\ lastEvent' = Event("saveExistingEntryChanges", entryID, "saved")
    /\ UNCHANGED <<vaultGroups, vaultEntries, nextItem>>
    /\ UNCHANGED linkVars
    /\ UNCHANGED <<vaultPc, managerWatchers, nextId, rehydrated, sources, status,
                   updatedCbs, unlockedCbs, watched, adding, unlocking,
                   searchPending, searchIndex, lastRebuild, unwatchedUnlocks,
                   missedUnlocked>>

\* ------------------------------------------------------------ deep links

\* A URI as the text "<scheme>://<host><path>#<hash>": the scheme as written,
\* the host, the path segments, the number of trailing slashes, and the
\* fragment as its "&"-separated pieces, each piece as its "="-separated parts.
URL(scheme, host, segs, slashes, hash) ==
    [scheme |-> scheme, host |-> host, segs |-> segs, slashes |-> slashes,
     hash |-> hash]

\* The empty (or null) URI.
EmptyURL == URL("", "", <<>>, 0, <<>>)

OtpURL == URL("otpauth", "totp", <<"label">>, 0, <<>>)
OtpURLUpper == URL("OTPAUTH", "totp", <<"label">>, 0, <<>>)
AuthURL == URL("buttercup", "auth", <<"dropbox">>, 1,
               <<<<"token_type", "bearer">>, <<"access_token", "XYZ">>>>)
AuthURLTwice == URL("Buttercup", "auth", <<"dropbox">>, 0,
                    <<<<"access_token", "ABC">>, <<"access_token", "XYZ">>>>)
OtherPathURL == URL("buttercup", "other", <<"dropbox">>, 0, <<>>)
WebURL == URL("https", "example", <<>>, 0, <<>>)

URLs == {OtpURL, OtpURLUpper, AuthURL, AuthURLTwice, OtherPathURL, WebURL}

URI_PROTO_BUTTERCUP == "buttercup"
URI_PROTO_OTPAUTH == "otpauth"

\* A slip: the prefix tests are made on the text as written.
ToLowerCaseIdentity(scheme) == scheme

\* String.prototype.toLowerCase on the scheme part of the text.
ToLowerCase(scheme) ==
    CASE scheme = "Buttercup" -> "buttercup"
      [] scheme = "OTPAUTH" -> "otpauth"
      [] OTHER -> scheme

\* A slip: the trailing slashes are kept, each leaving an empty last segment.
NormaliseButtercupPathKeepSlashes(url) ==
    <<url.host>> \o url.segs \o [i \in 1..url.slashes |-> ""]

\* normaliseButtercupPath: joinURL("/", host, pathname) with the trailing
\* slashes removed, as the sequence of its segments.
NormaliseButtercupPath(url) == <<url.host>> \o url.segs

\* A slip: a key already in the output is not overwritten.
RECURSIVE ExtractHashPropertiesFirstWins(_, _)
ExtractHashPropertiesFirstWins(hash, output) ==
    IF hash = <<>> THEN output
    ELSE LET keyVal == Head(hash)
             key == keyVal[1]
             value == IF Len(keyVal) >= 2 THEN keyVal[2] ELSE "undefined"
         IN ExtractHashPropertiesFirstWins(Tail(hash),
                [k \in (DOMAIN output) \cup {key} |->
                    IF k \in DOMAIN output THEN output[k] ELSE value])

\* extractHashProperties: the reduce over the pieces; a later piece with the
\* same key overwrites; the value is the second "="-part of the piece.
RECURSIVE ExtractHashProperties(_, _)
ExtractHashProperties(hash, output) ==
    IF hash = <<>> THEN output
    ELSE LET keyVal == Head(hash)
             key == keyVal[1]
             value == IF Len(keyVal) >= 2 THEN keyVal[2] ELSE "undefined"
         IN ExtractHashProperties(Tail(hash),
                [k \in (DOMAIN output) \cup {key} |->
                    IF k = key THEN value ELSE output[k]])

\* ./otp storePendingOTPURI(uri): a URI already pending is not stored again;
\* the result tells whether it was stored.
StorePendingOTPURI(pending, uri) ==
    IF Includes(pending, uri)
    THEN [stored |-> FALSE, inbox |-> pending]
    ELSE [stored |-> TRUE, inbox |-> Append(pending, uri)]

\* A slip: the default branch of the switch emits the token too.
ProcessButtercupURLAnyPath(url, st) ==
    LET props == ExtractHashProperties(url.hash, [k \in {} |-> ""])
        accessToken == IF "access_token" \in DOMAIN props
                       THEN props["access_token"] ELSE "undefined"
    IN [st EXCEPT !.tokens = Append(@, accessToken)]

\* processButtercupURL(url), on the router's state.
ProcessButtercupURL(url, st) ==
    IF NormaliseButtercupPath(url) = <<"auth", "dropbox">>
    THEN LET props == ExtractHashProperties(url.hash, [k \in {} |-> ""])
             accessToken == IF "access_token" \in DOMAIN props
                            THEN props["access_token"] ELSE "undefined"
         IN [st EXCEPT !.tokens = Append(@, accessToken)]
    ELSE st

\* A slip: the success notification does not look at the result of the store.
HandleURLChangeAlwaysNotify(url, st) ==
    IF url = EmptyURL THEN st
    ELSE LET lowerURL == ToLowerCase(url.scheme)
             seen == [st EXCEPT !.handled = Append(@, url)]
         IN IF lowerURL = URI_PROTO_BUTTERCUP
            THEN ProcessButtercupURL(url, seen)
            ELSE IF lowerURL = URI_PROTO_OTPAUTH
            THEN LET r == StorePendingOTPURI(seen.inbox, url)
                 IN [seen EXCEPT !.inbox = r.inbox,
                                 !.notices = Append(@, "success")]
            ELSE [seen EXCEPT !.notices = Append(@, "error")]

\* A slip: the last branch stores the URI instead of warning.
HandleURLChangeStoreUnknown(url, st) ==
    IF url = EmptyURL THEN st
    ELSE LET lowerURL == ToLowerCase(url.scheme)
             seen == [st EXCEPT !.handled = Append(@, url)]
         IN IF lowerURL = URI_PROTO_BUTTERCUP
            THEN ProcessButtercupURL(url, seen)
            ELSE LET r == StorePendingOTPURI(seen.inbox, url)
                 IN IF r.stored
                    THEN [seen EXCEPT !.inbox = r.inbox,
                                      !.notices = Append(@, "success")]
                    ELSE [seen EXCEPT !.inbox = r.inbox]

\* handleURLChange(url), on the router's state [handled, inbox, tokens,
\* notices]; handled records the URIs that reached a branch.
HandleURLChange(url, st) ==
    IF url = EmptyURL THEN st
    ELSE LET lowerURL == ToLowerCase(url.scheme)
             seen == [st EXCEPT !.handled = Append(@, url)]
         IN IF lowerURL = URI_PROTO_BUTTERCUP
            THEN ProcessButtercupURL(url, seen)
            ELSE IF lowerURL = URI_PROTO_OTPAUTH
            THEN LET r == StorePendingOTPURI(seen.inbox, url)
                 IN IF r.stored
                    THEN [seen EXCEPT !.inbox = r.inbox,
                                      !.notices = Append(@, "success")]
                    ELSE [seen EXCEPT !.inbox = r.inbox]
            ELSE [seen EXCEPT !.notices = Append(@, "error")]

RouterState ==
    [handled |-> handled, inbox |-> inbox, tokens |-> tokens, notices |-> notices]

SetRouterState(st) ==
    /\ handled' = st.handled
    /\ inbox' = st.inbox
    /\ tokens' = st.tokens
    /\ notices' = st.notices

\* linking initialise(): getInitialURL resolves, the initial URI (if any) is
\* handled, then the "url" listener is added.
LinkInitialise ==
    /\ linkPc = "start"
    /\ \E u \in URLs \cup {EmptyURL} :
         /\ initialURL' = u
         /\ SetRouterState(IF u # EmptyURL
                           THEN HandleURLChange(u, RouterState)
                           ELSE RouterState)
    /\ linkPc' = "listening"
    /\ UNCHANGED delivered
    /\ UNCHANGED <<vaultVars, editVars>>

\* urlChangeHandler: a live "url" event is delivered to the listener.
LinkURLEvent ==
    /\ linkPc = "listening"
    /\ Len(delivered) < MaxDeliveries
    /\ \E u \in URLs \cup {EmptyURL} :
         /\ delivered' = Append(delivered, u)
         /\ SetRouterState(HandleURLChange(u, RouterState))
    /\ UNCHANGED <<linkPc, initialURL>>
    /\ UNCHANGED <<vaultVars, editVars>>

\* ------------------------------------------------------------ specification

VaultInit ==
    /\ vaultPc = "start"
    /\ managerWatchers = 0
    /\ nextId = 1
    /\ rehydrated = {}
    /\ sources = <<>>
    /\ status = [id \in SourceIDs |-> "None"]
    /\ vault = [id \in SourceIDs |-> NoVault]
    /\ updatedCbs = [id \in SourceIDs |-> 0]
    /\ unlockedCbs = [id \in SourceIDs |-> 0]
    /\ watched = <<>>
    /\ otpCache = [id \in {} |-> <<>>]
    /\ adding = {}
    /\ unlocking = [id \in SourceIDs |-> "none"]
    /\ searchPending = {}
    /\ searchIndex = {}
    /\ lastRebuild = NoRebuild
    /\ unwatchedUnlocks = {}
    /\ missedUnlocked = {}
    /\ lastEvent = Event("init", 0, "ok")

LinkInit ==
    /\ linkPc = "start"
    /\ initialURL = EmptyURL
    /\ delivered = <<>>
    /\ handled = <<>>
    /\ inbox = <<>>
    /\ tokens = <<>>
    /\ notices = <<>>

\* No vault is open in an editor.
EditIdle ==
    /\ vaultGroups = NoItems
    /\ vaultEntries = NoItems
    /\ nextItem = 1

Init == VaultInit /\ LinkInit /\ EditIdle

Next ==
    \/ InitialiseAttach
    \/ InitialiseRehydrate
    \/ AddVaultUnknownType
    \/ AddVaultAddSource
    \/ \E id \in SourceIDs : AddVaultUnlock(id)
    \/ \E id \in SourceIDs : UnlockSourceByID(id)
    \/ \E id \in SourceIDs : EngineUnlockSucceed(id)
    \/ \E id \in SourceIDs : EngineUnlockFail(id)
    \/ \E id \in SourceIDs : EngineLock(id)
    \/ \E id \in SourceIDs : EngineUpdated(id)
    \/ \E id \in SourceIDs : EngineAutoUpdateFailed(id)
    \/ EngineSourcesUpdated
    \/ SearchRebuildDone
    \/ \E id \in SourceIDs : RemoveVaultSource(id)

\* The source lifecycle and its derived caches.
Spec == Init /\ [][Next]_vars

LinkNext ==
    \/ LinkInitialise
    \/ LinkURLEvent

\* The deep-link router.
SpecLinking == Init /\ [][LinkNext]_vars

\* ------------------------------------------------- the recompute on its own

\* A source that is registered, watched and Unlocked with any content of up
\* to MaxEntries entries, its slot holding what an earlier recompute left.
ExtractInit ==
    /\ vaultPc = "ready"
    /\ managerWatchers = 1
    /\ nextId = 2
    /\ rehydrated = {1}
    /\ sources = <<1>>
    /\ status = [id \in SourceIDs |-> IF id = 1 THEN "Unlocked" ELSE "None"]
    /\ \E v \in AllVaults : vault = [id \in SourceIDs |-> IF id = 1 THEN v ELSE NoVault]
    /\ updatedCbs = [id \in SourceIDs |-> IF id = 1 THEN 1 ELSE 0]
    /\ unlockedCbs = [id \in SourceIDs |-> IF id = 1 THEN 1 ELSE 0]
    /\ watched = <<1>>
    /\ \E old \in VaultSamples :
         otpCache = SetCodesForSource([id \in {} |-> <<>>], 1,
                                      ExtractVaultOTPItems(1, old))
    /\ adding = {}
    /\ unlocking = [id \in SourceIDs |-> "none"]
    /\ searchPending = {}
    /\ searchIndex = {1}
    /\ lastRebuild = {1}
    /\ unwatchedUnlocks = {}
    /\ missedUnlocked = {}
    /\ lastEvent = Event("init", 0, "ok")
    /\ LinkInit
    /\ EditIdle

\* The source emits "updated" with the content it has.
SourceUpdated(id) ==
    /\ Includes(sources, id)
    /\ lastEvent.op = "init"
    /\ otpCache' = FireSourceEvent(updatedCbs[id], id, status[id], vault[id], otpCache)
    /\ lastEvent' = Event("updated", id, "ok")
    /\ UNCHANGED <<linkVars, editVars>>
    /\ UNCHANGED <<vaultPc, managerWatchers, nextId, rehydrated, sources, status,
                   vault, updatedCbs, unlockedCbs, watched, adding, unlocking,
                   searchPending, searchIndex, unwatchedUnlocks, missedUnlocked,
                   lastRebuild>>

ExtractNext == \E id \in SourceIDs : SourceUpdated(id)

\* One recompute of one source, over every content within the bound.
SpecExtract == ExtractInit /\ [][ExtractNext]_vars

\* ------------------------------------------- recomputes over failing scans

\* Every source registered, watched and Unlocked, each with a content that
\* scans or one that does not, the slots holding what earlier recomputes left.
ScanInit ==
    /\ vaultPc = "ready"
    /\ managerWatchers = 1
    /\ nextId = MaxSources + 1
    /\ rehydrated = SourceIDs
    /\ sources = [i \in SourceIDs |-> i]
    /\ status = [id \in SourceIDs |-> "Unlocked"]
    /\ vault \in [SourceIDs -> ScanSamples]
    /\ updatedCbs = [id \in SourceIDs |-> 1]
    /\ unlockedCbs = [id \in SourceIDs |-> 1]
    /\ watched = [i \in SourceIDs |-> i]
    /\ \E old \in [SourceIDs -> VaultSamples] :
         otpCache = [id \in SourceIDs |-> ExtractVaultOTPItems(id, old[id])]
    /\ adding = {}
    /\ unlocking = [id \in SourceIDs |-> "none"]
    /\ searchPending = {}
    /\ searchIndex = SourceIDs
    /\ lastRebuild = SourceIDs
    /\ unwatchedUnlocks = {}
    /\ missedUnlocked = {}
    /\ lastEvent = Event("init", 0, "ok")
    /\ LinkInit
    /\ EditIdle

\* An Unlocked source emits "updated" after its content changed, to one that
\* scans or to one that does not.
ScanUpdated(id) ==
    /\ Includes(sources, id)
    /\ \E v \in ScanSamples :
         /\ vault' = [vault EXCEPT ![id] = v]
         /\ otpCache' = FireSourceEvent(updatedCbs[id], id, status[id], v, otpCache)
         /\ lastEvent' = Event("updated", id,
                               FireSourceEventOutcome(updatedCbs[id], status[id], v))
    /\ UNCHANGED <<linkVars, editVars>>
    /\ UNCHANGED <<vaultPc, managerWatchers, nextId, rehydrated, sources, status,
                   updatedCbs, unlockedCbs, watched, adding, unlocking,
                   searchPending, searchIndex, lastRebuild, unwatchedUnlocks,
                   missedUnlocked>>

ScanNext == \E id \in SourceIDs : ScanUpdated(id)

\* Recomputes of Unlocked sources whose scan may fail.
SpecScan == ScanInit /\ [][ScanNext]_vars

\* --------------------------------------------- editing an unlocked vault

\* The edited source is registered, watched and Unlocked; its vault holds
\* one root group and no entry.
EditInit ==
    /\ vaultPc = "ready"
    /\ managerWatchers = 1
    /\ nextId = 2
    /\ rehydrated = {EditSource}
    /\ sources = <<EditSource>>
    /\ status = [id \in SourceIDs |-> IF id = EditSource THEN "Unlocked" ELSE "None"]
    /\ vault = [id \in SourceIDs |-> NoVault]
    /\ updatedCbs = [id \in SourceIDs |-> IF id = EditSource THEN 1 ELSE 0]
    /\ unlockedCbs = [id \in SourceIDs |-> IF id = EditSource THEN 1 ELSE 0]
    /\ watched = <<EditSource>>
    /\ otpCache = SetCodesForSource([id \in {} |-> <<>>], EditSource, <<>>)
    /\ adding = {}
    /\ unlocking = [id \in SourceIDs |-> "none"]
    /\ searchPending = {}
    /\ searchIndex = {EditSource}
    /\ lastRebuild = {EditSource}
    /\ unwatchedUnlocks = {}
    /\ missedUnlocked = {}
    /\ lastEvent = Event("init", 0, "ok")
    /\ LinkInit
    /\ vaultGroups = [g \in {1} |-> NoID]
    /\ vaultEntries = NoItems
    /\ nextItem = 2

EditNext ==
    \/ \E parentGroupID \in ItemIDs \cup {NoID} : CreateNewGroup(parentGroupID)
    \/ \E groupID \in ItemIDs \cup {NoID} : DeleteGroup(groupID)
    \/ \E groupID \in ItemIDs \cup {NoID}, facade \in Facades :
         SaveNewEntry(groupID, facade)
    \/ \E entryID \in ItemIDs \cup {NoID}, facade \in Facades :
         SaveExistingEntryChanges(entryID, facade)

\* The group and entry operations on the vault of an Unlocked source.
SpecEdit == EditInit /\ [][EditNext]_vars

\* ------------------------------------------------------------------ claims

Registered(id) == Includes(sources, id)

HasSlot(id) == id \in DOMAIN otpCache

SlotEmpty(id) == ~HasSlot(id) \/ otpCache[id] = <<>>

\* C1: the one-time-code cache holds an entry list for a source if and only
\* if the source is registered and Unlocked; a Locked or removed source has
\* an empty or absent slot.
C1_CacheIffUnlocked ==
    \A id \in SourceIDs :
        /\ (Registered(id) /\ status[id] = "Unlocked") => HasSlot(id)
        /\ ~(Registered(id) /\ status[id] = "Unlocked") => SlotEmpty(id)

\* C2: the size of __watchedVaultSources equals the number of registered
\* sources, after any sequence of adds and removes.
C2_WatchedSizeEqualsRegistered ==
    Len(watched) = Len(sources)

WatcherState ==
    [watched |-> watched, updatedCbs |-> updatedCbs, unlockedCbs |-> unlockedCbs]

\* C3: every source has at most one "updated" and at most one "unlocked"
\* listener and occurs at most once in __watchedVaultSources, and running the
\* attach pass again over the registered sources changes nothing.
C3_AttachIdempotent ==
    /\ \A id \in SourceIDs :
          /\ updatedCbs[id] <= 1
          /\ unlockedCbs[id] <= 1
          /\ Occurrences(watched, id) <= 1
    /\ vaultPc = "ready" => AttachWatchers(sources, WatcherState) = WatcherState

C3_Witness ==
    /\ lastEvent.op = "sourcesUpdated"
    /\ Len(sources) = 2
    /\ \A id \in Range(sources) : updatedCbs[id] = 1 /\ unlockedCbs[id] = 1

\* The OTP-typed properties of a content, as (entry position, property
\* position) pairs.
OTPProperties(vlt) ==
    UNION {{<<i, j>> : j \in {k \in 1..Len(vlt[i].props) : vlt[i].props[k].type = OTP}} :
            i \in 1..Len(vlt)}

\* The entries of a content that have an OTP-typed property.
OTPEntries(vlt) == {p[1] : p \in OTPProperties(vlt)}

\* C4 as stated: a recompute of an Unlocked source leaves as many items as
\* there are entries with a one-time-code-typed property.
C4_OneItemPerOTPEntry ==
    lastEvent.op = "updated" =>
        Len(otpCache[1]) = Cardinality(OTPEntries(vault[1]))

\* C4 amended: a recompute of an Unlocked source leaves exactly one item per
\* one-time-code-typed property, carrying the source ID, the entry ID and
\* the property key, and nothing of the slot's earlier content.
C4_OneItemPerOTPProperty ==
    lastEvent.op = "updated" =>
        LET slot == otpCache[1]
            vlt == vault[1]
        IN /\ Len(slot) = Cardinality(OTPProperties(vlt))
           /\ \A p \in OTPProperties(vlt) :
                 \E k \in 1..Len(slot) :
                    /\ slot[k].sourceID = 1
                    /\ slot[k].entryID = vlt[p[1]].id
                    /\ slot[k].entryProperty = vlt[p[1]].props[p[2]].key

C4_Witness ==
    /\ lastEvent.op = "updated"
    /\ Len(otpCache[1]) = 3
    /\ Cardinality(OTPEntries(vault[1])) = 2

\* C5: unlockSourceByID on a registered source whose status is not Locked
\* fails with the invalid-state error and starts no engine unlock; when the
\* engine rejects an unlock it started, the caller gets the error, the source
\* is Locked again and the cache is as it was.
C5_UnlockGuardAndRejection ==
    [][\A id \in SourceIDs :
          /\ (/\ lastEvent'.op = "unlockSourceByID"
              /\ lastEvent'.id = id
              /\ lastEvent'.outcome \in {"InvalidState", "unlocking"}
              /\ status[id] # "Locked")
             => /\ lastEvent'.outcome = "InvalidState"
                /\ unlocking' = unlocking
                /\ status' = status
                /\ otpCache' = otpCache
          /\ (unlocking[id] # "unlockSourceByID" /\ unlocking'[id] = "unlockSourceByID")
             => status[id] = "Locked"
          /\ (unlocking[id] = "unlockSourceByID" /\ unlocking'[id] = "none"
                 /\ status'[id] # "Unlocked")
             => /\ lastEvent' = Event("unlockSourceByID", id, "AuthenticationFailed")
                /\ status'[id] = "Locked"
                /\ otpCache' = otpCache
      ]_vars

C5_Witness ==
    \E id \in SourceIDs, other \in SourceIDs :
        /\ lastEvent = Event("unlockSourceByID", id, "AuthenticationFailed")
        /\ status[id] = "Locked"
        /\ other # id
        /\ status[other] = "Unlocked"
        /\ HasSlot(other) /\ otpCache[other] # <<>>

\* The guard of unlockSourceByID met on each status other than Locked.
C5_GuardSeenOn(st) ==
    \E id \in SourceIDs :
        /\ lastEvent = Event("unlockSourceByID", id, "InvalidState")
        /\ status[id] = st

\* C6: after removeVaultSource(id) of a registered source, the one-time-code
\* cache has no entries for it and a search rebuild over the remaining
\* Unlocked sources has been started.
C6_RemovePurgesCaches ==
    \A id \in SourceIDs :
        lastEvent = Event("removeVaultSource", id, "ok")
        => /\ SlotEmpty(id)
           /\ \/ UnlockedSources(sources, status) \in searchPending
              \/ searchIndex = UnlockedSources(sources, status)

\* The slot of a source as a sequence: empty when the key is absent.
SlotOf(cache, id) == IF id \in DOMAIN cache THEN <<cache[id]>> ELSE <<>>

\* C7: no step writes the cache slot of a source that is absent from the
\* registry, whatever the interleaving of unlock start, removal and unlock
\* completion.
C7_NoCacheWriteAfterRemoval ==
    [][\A id \in SourceIDs :
          ~Includes(sources', id) => SlotOf(otpCache', id) = SlotOf(otpCache, id)
      ]_vars

\* C8: the manager-level listener is attached before rehydrate, every unlock
\* is started on a source that has its watcher pair, no "unlocked"
\* notification finds no listener, and every Unlocked source has had its
\* slot computed.
C8_WatchersBeforeFirstUnlock ==
    /\ vaultPc \in {"attached", "ready"} => managerWatchers >= 1
    /\ unwatchedUnlocks = {}
    /\ missedUnlocked = {}
    /\ \A id \in SourceIDs :
          /\ (id \in adding \/ unlocking[id] # "none")
             => (updatedCbs[id] >= 1 /\ unlockedCbs[id] >= 1)
          /\ status[id] = "Unlocked" => HasSlot(id)

C8_Witness ==
    \E a \in rehydrated, b \in SourceIDs \ rehydrated :
        /\ status[a] = "Unlocked" /\ HasSlot(a)
        /\ status[b] = "Unlocked" /\ HasSlot(b)
        /\ lastEvent = Event("addVault", b, "resolved")

IsOtpauth(u) == ToLowerCase(u.scheme) = URI_PROTO_OTPAUTH

\* C9: an otpauth URI handed to the router is pending exactly once however
\* often it is delivered, and one success notification is raised per stored
\* URI, none for a repeated delivery.
C9_StoredOncePerURI ==
    /\ \A u \in URLs :
          IsOtpauth(u) =>
              Occurrences(inbox, u) = IF Includes(handled, u) THEN 1 ELSE 0
    /\ Occurrences(notices, "success") = Len(inbox)

C9_Witness ==
    /\ Occurrences(handled, OtpURL) = 2
    /\ inbox = <<OtpURL>>
    /\ notices = <<"success">>

\* C10: the initial URI is handled once before any live event, and an
\* initial URI delivered again as the first live event is still handled once.
C10_InitialURIHandledOnce ==
    /\ (linkPc = "listening" /\ delivered = <<>>)
       => handled = IF initialURL = EmptyURL THEN <<>> ELSE <<initialURL>>
    /\ (initialURL # EmptyURL /\ delivered = <<initialURL>>)
       => Occurrences(handled, initialURL) = 1

\* The spellings of the two recognised schemes among the URIs delivered.
ButtercupSpellings == {"buttercup", "Buttercup"}

OtpauthSpellings == {"otpauth", "OTPAUTH"}

\* The handler paths of processButtercupURL.
RegisteredPaths == {<<"auth", "dropbox">>}

\* C11: handling buttercup://auth/dropbox/#token_type=bearer&access_token=XYZ
\* emits exactly one "token" event, carrying XYZ, and neither the pending
\* inbox nor the user-visible notifications change.
C11_AuthCallbackEmitsTokenOnce ==
    [][handled' = Append(handled, AuthURL)
       => /\ tokens' = Append(tokens, "XYZ")
          /\ inbox' = inbox
          /\ notices' = notices]_vars

C11_Witness ==
    /\ handled = <<AuthURL>>
    /\ tokens = <<"XYZ">>
    /\ inbox = <<>>
    /\ notices = <<>>

\* C12: a URI of neither recognised scheme raises the "Unrecognised URI"
\* warning and changes nothing else: the inbox is unchanged and no token
\* event is emitted.
C12_UnrecognisedOnlyWarns ==
    [][\A u \in URLs :
          (/\ u.scheme \notin ButtercupSpellings \cup OtpauthSpellings
           /\ handled' = Append(handled, u))
          => /\ notices' = Append(notices, "error")
             /\ inbox' = inbox
             /\ tokens' = tokens]_vars

C12_Witness ==
    /\ WebURL \in Range(handled)
    /\ "error" \in Range(notices)
    /\ OtpURL \in Range(inbox)
    /\ tokens # <<>>

\* The value of the last "="-split piece of the fragment whose key is key.
LastValueOf(hash, key) ==
    LET at == {i \in DOMAIN hash : hash[i][1] = key}
        last == CHOOSE i \in at : \A j \in at : j <= i
    IN hash[last][2]

\* The number of pieces of the fragment whose key is key.
PiecesWithKey(hash, key) == Cardinality({i \in DOMAIN hash : hash[i][1] = key})

\* C17: the fragment is split on "&" and each piece on "=", and the last
\* occurrence of a key wins: a /auth/dropbox callback whose fragment holds
\* access_token more than once hands over the value of the last such pair.
C17_LastAccessTokenWins ==
    [][\A u \in URLs :
          (/\ u.scheme \in ButtercupSpellings
           /\ <<u.host>> \o u.segs \in RegisteredPaths
           /\ PiecesWithKey(u.hash, "access_token") >= 1
           /\ handled' = Append(handled, u))
          => tokens' = Append(tokens, LastValueOf(u.hash, "access_token"))]_vars

C17_Witness ==
    /\ PiecesWithKey(AuthURLTwice.hash, "access_token") = 2
    /\ handled = <<AuthURL, AuthURLTwice>>
    /\ tokens = <<"XYZ", "XYZ">>

\* C18: a buttercup:// URI whose normalised path is not a handler path is
\* only logged: no token event, the inbox unchanged, and no error or success
\* notification.
C18_UnknownPathIgnored ==
    [][\A u \in URLs :
          (/\ u.scheme \in ButtercupSpellings
           /\ NormaliseButtercupPath(u) \notin RegisteredPaths
           /\ handled' = Append(handled, u))
          => /\ tokens' = tokens
             /\ inbox' = inbox
             /\ notices' = notices]_vars

C18_Witness ==
    /\ OtherPathURL \in Range(handled)
    /\ AuthURL \in Range(handled)
    /\ Len(tokens) = 1
    /\ notices = <<>>

\* What one call of handleURLChange(u) may do, by the scheme of u as written.
C20_Outcome(u) ==
    IF u = EmptyURL
    THEN UNCHANGED <<handled, inbox, tokens, notices>>
    ELSE IF u.scheme \in ButtercupSpellings
    THEN /\ inbox' = inbox
         /\ notices' = notices
         /\ \/ tokens' = tokens
            \/ \E t \in {"XYZ", "ABC", "undefined"} : tokens' = Append(tokens, t)
    ELSE IF u.scheme \in OtpauthSpellings
    THEN /\ tokens' = tokens
         /\ u \in Range(inbox')
         /\ \/ inbox' = inbox /\ notices' = notices
            \/ inbox' = Append(inbox, u) /\ notices' = Append(notices, "success")
    ELSE /\ tokens' = tokens
         /\ inbox' = inbox
         /\ notices' = Append(notices, "error")

\* C20: each URI handed to handleURLChange takes exactly one of four
\* outcomes, chosen by a case-insensitive match of the scheme: an empty URI
\* does nothing; a buttercup:// URI reaches only the auth dispatcher; an
\* otpauth:// URI reaches only the pending inbox, with its text as written;
\* anything else raises only the unrecognised-URI warning.
C20_OneOutcomePerURI ==
    [][\A u \in URLs \cup {EmptyURL} :
          (delivered' = Append(delivered, u)) => C20_Outcome(u)]_vars

C20_Witness ==
    /\ delivered = <<EmptyURL, OtpURLUpper, AuthURLTwice>>
    /\ inbox = <<OtpURLUpper>>
    /\ notices = <<"success">>
    /\ tokens = <<"XYZ">>
    /\ handled = <<OtpURLUpper, AuthURLTwice>>

\* C14: a source-changed callback that runs while the source is Pending or
\* Errored leaves the one-time-code cache as it was, and every write to the
\* slot of a source happens in a step in which that source is Unlocked.
C14_CacheWrittenOnlyWhenUnlocked ==
    [][/\ \A id \in SourceIDs :
            (/\ lastEvent' = Event("updated", id, "ok")
             /\ status'[id] \in {"Pending", "Errored"})
            => otpCache' = otpCache
       /\ \A id \in SourceIDs :
            SlotOf(otpCache', id) # SlotOf(otpCache, id)
            => status'[id] = "Unlocked"]_vars

C14_Witness ==
    \E id \in SourceIDs :
        /\ lastEvent = Event("updated", id, "ok")
        /\ status[id] = "Errored"
        /\ updatedCbs[id] > 0
        /\ ~HasSlot(id)
        /\ \E other \in SourceIDs \ {id} :
             status[other] = "Unlocked" /\ HasSlot(other) /\ otpCache[other] # <<>>

C14_CallbackSeenOn(st) ==
    \E id \in SourceIDs :
        /\ lastEvent = Event("updated", id, "ok")
        /\ status[id] = st
        /\ updatedCbs[id] > 0

\* C13: an "autoUpdateFailed" event of the vault engine raises a user-visible
\* notification and leaves the status of every source, the one-time-code
\* cache, the search index and the watched set as they were.
C13_AutoUpdateFailedOnlyNotifies ==
    [][lastEvent'.op = "autoUpdateFailed"
       => /\ lastEvent'.outcome = "notifyError"
          /\ status' = status
          /\ otpCache' = otpCache
          /\ searchIndex' = searchIndex
          /\ searchPending' = searchPending
          /\ watched' = watched]_vars

C13_Witness ==
    \E id \in SourceIDs :
        /\ lastEvent = Event("autoUpdateFailed", id, "notifyError")
        /\ status[id] = "Unlocked"
        /\ HasSlot(id)
        /\ otpCache[id] # <<>>
        /\ id \in searchIndex

\* The step just taken was an emit of "sourcesUpdated" by the manager.
RegistryChanged ==
    \/ lastEvent.op \in {"rehydrate", "addSource", "sourcesUpdated"}
    \/ lastEvent.op = "removeVaultSource" /\ lastEvent.outcome = "ok"

\* C16, first half: every "sourcesUpdated" calls the search rebuild with the
\* full list of the sources Unlocked at that moment.
C16_RebuildCalledWithUnlocked ==
    RegistryChanged => lastRebuild = UnlockedSources(sources, status)

\* C16: every "sourcesUpdated" calls the search rebuild with the sources
\* Unlocked at that moment, and once no rebuild is in flight the search index
\* is the one built by the latest call: a rebuild started earlier never
\* overwrites the result of a later one.
C16_IndexReflectsLatestRebuild ==
    /\ C16_RebuildCalledWithUnlocked
    /\ (searchPending = {} /\ lastRebuild # NoRebuild) => searchIndex = lastRebuild

\* C15: a scan failure while recomputing the codes of one source is caught
\* inside the recompute: no exception leaves the source-changed callback, the
\* slot of that source keeps its old value, and the recompute of a source
\* whose content scans produces its entries.
C15_ScanFailureContained ==
    [][\A id \in SourceIDs :
          (lastEvent'.op = "updated" /\ lastEvent'.id = id)
          => /\ lastEvent'.outcome = "ok"
             /\ \A other \in SourceIDs \ {id} :
                  SlotOf(otpCache', other) = SlotOf(otpCache, other)
             /\ IF ExtractVaultOTPItemsThrows(vault'[id])
                THEN SlotOf(otpCache', id) = SlotOf(otpCache, id)
                ELSE SlotOf(otpCache', id) = <<ExtractVaultOTPItems(id, vault'[id])>>]_vars

\* The part of C15 the code keeps: a failed scan leaves every slot as it was.
C15_FailedScanKeepsSlots ==
    [][lastEvent'.outcome = "threw" => otpCache' = otpCache]_vars

\* The operations of C19 that look a group up, and the one that looks an
\* entry up.
GroupOps == {"deleteGroup", "createNewGroup", "saveNewEntry"}

EntryOps == {"saveExistingEntryChanges"}

\* C19: deleteGroup, createNewGroup with a parent, saveNewEntry and
\* saveExistingEntryChanges, called with a group or entry ID that is unknown
\* in the vault, end with the NotFound error, change nothing in the vault and
\* do not save.
C19_UnknownIDIsNotFound ==
    [][\A x \in ItemIDs :
          (/\ lastEvent'.id = x
           /\ \/ lastEvent'.op \in GroupOps /\ x \notin DOMAIN vaultGroups
              \/ lastEvent'.op \in EntryOps /\ x \notin DOMAIN vaultEntries)
          => /\ lastEvent'.outcome = "NotFound"
             /\ UNCHANGED <<vault, vaultGroups, vaultEntries, otpCache>>]_vars

\* The part of C19 the code keeps: an unknown ID never changes the vault and
\* never reaches source.save(), and the three operations other than
\* deleteGroup end with NotFound.
C19_UnknownIDChangesNothing ==
    [][\A x \in ItemIDs :
          (/\ lastEvent'.id = x
           /\ \/ lastEvent'.op \in GroupOps /\ x \notin DOMAIN vaultGroups
              \/ lastEvent'.op \in EntryOps /\ x \notin DOMAIN vaultEntries)
          => /\ lastEvent'.outcome # "saved"
             /\ lastEvent'.op # "deleteGroup" => lastEvent'.outcome = "NotFound"
             /\ UNCHANGED <<vault, vaultGroups, vaultEntries, otpCache>>]_vars

====
